---- MODULE Spec2Model ----
(***************************************************************************)
(* Model of the chunking -> translation dispatch -> reassembly pipeline of *)
(* the Paradox mod translator (src/src).                                   *)
(*                                                                         *)
(* Text is a sequence of characters.  Four characters stand for the four   *)
(* classes the splitter and the merger tell apart: "a" (any non-CJK        *)
(* character), "H" (a CJK ideograph), "LF" (line feed) and "CR" (carriage  *)
(* return).  The validator adds the three marker delimiters "POUND",       *)
(* "DOLLAR" and "SECTION" and the marker contents "i", "v" and "c"; the    *)
(* glossary adds "A", the upper-case form of "a", and the letters "b", "k".*)
(***************************************************************************)
EXTENDS Integers, Sequences, FiniteSets, TLC

\* ------------------------------------------------------------------ bounds
MaxTextLen == 5
MaxBudget == 6
MaxSlices == 3
MaxLine == 3
MaxChunks == 3
MaxConcurrency == 2
MaxTasks == 2
MaxLangs == 2
MaxFiles == 2

\* default_max_retries()
DefaultMaxRetries == 3

Chars == {"a", "H", "LF", "CR"}

VARIABLES
    pc,                 \* position of the operation under study
    content,            \* split_yaml_content: the text given
    max_chunk_tokens,   \* split_yaml_content: the budget given
    chunks,             \* Vec<FileChunk> returned by split_yaml_content
    slices,             \* Vec<TranslationSlice> handed to merge_slices
    merged,             \* Result<String> of merge_slices
    concurrency,        \* ClientSettings.concurrency
    max_retries,        \* ClientSettings.max_retries
    futures,            \* translate_batch: one translate_chunk future per chunk
    completion_order,   \* translate_batch: chunk indices in the order they resolved
    batch_result,       \* Result<Vec<TranslationSlice>> of translate_batch
    ntasks,             \* main: number of tasks in the task file
    nlangs,             \* translate_task: number of target languages of a task
    files,              \* translate_task: bodies of the source files found
    task_idx,           \* main: tasks taken from the task loop so far
    lang_idx,           \* translate_task: languages taken from the loop so far
    file_idx,           \* translate_task: files taken from the loop so far
    chunk_idx,          \* translate_one_file: chunks taken from the loop so far
    request_log,        \* every backend request started, with its outcome
    written,            \* output files written, as <<task, language, file>>
    api_key_set,        \* main: OPENAI_API_KEY is in the environment
    task_file,          \* main: what reading and parsing the task file gives
    temperature,        \* ClientSettings.temperature, in tenths
    timeout_secs,       \* ClientSettings.timeout_secs
    tasks,              \* the [[task]] tables of the task file
    run_error,          \* the error the run ended with
    response,           \* translate_chunk: the latest answer of the backend
    validate_original,  \* FormatValidator::validate: the source text given
    validate_translated, \* FormatValidator::validate: the translated text given
    validate_issues,    \* FormatValidator::validate: the messages of its result
    glossary,           \* Glossary.entries: term id -> GlossaryItem
    query_source_lang,  \* the source language asked for
    query_target_lang,  \* the target language asked for
    chunk_text,         \* the chunk text searched for glossary terms
    translation_map,    \* result of Glossary::get_translation_map
    found_terms,        \* result of Glossary::find_terms_in_text
    term_table,         \* the term table load_system_prompt puts in the prompt
    raw_json,           \* Glossary::from_json_file: what the file holds
    load_error,         \* Glossary::from_json_file: the error returned, if any
    glossary_list,      \* Glossary::merge_glossaries: the glossaries given
    original_header,    \* reconstruct_yaml_file: the header given
    reconstructed,      \* reconstruct_yaml_file: its result
    source_filename,    \* generate_target_filename: the file name given
    name_source_lang,   \* generate_target_filename: the source language given
    name_target_lang,   \* generate_target_filename: the target language given
    generated_filename  \* generate_target_filename: its result

splitVars == <<content, max_chunk_tokens, chunks, slices, merged>>
settingsVars == <<concurrency, max_retries>>
batchVars == <<futures, completion_order, batch_result>>
taskInputs == <<ntasks, nlangs, files, api_key_set, task_file, temperature, timeout_secs,
                tasks>>
taskVars == <<task_idx, lang_idx, file_idx, chunk_idx, request_log, written, run_error,
              response>>
validateVars == <<validate_original, validate_translated, validate_issues>>
glossaryVars == <<glossary, query_source_lang, query_target_lang, chunk_text, translation_map,
                  found_terms, term_table, raw_json, load_error, glossary_list>>
fileVars == <<original_header, reconstructed, source_filename, name_source_lang,
              name_target_lang, generated_filename>>
libraryVars == <<validateVars, glossaryVars, fileVars>>
vars == <<pc, splitVars, settingsVars, batchVars, taskInputs, taskVars, libraryVars>>

\* ------------------------------------------------------- generic helpers
RECURSIVE SeqsUpTo(_, _)
SeqsUpTo(S, n) ==
    IF n = 0 THEN {<<>>}
    ELSE LET shorter == SeqsUpTo(S, n - 1)
         IN  shorter \cup {Append(s, x) : s \in {t \in shorter : Len(t) = n - 1}, x \in S}

RECURSIVE Flatten(_)
Flatten(ss) == IF ss = <<>> THEN <<>> ELSE Head(ss) \o Flatten(Tail(ss))

\* ---------------------------------------------------- utils/token_estimator
is_cjk_character(c) == c = "H"

CjkCount(text) == Cardinality({i \in 1..Len(text) : is_cjk_character(text[i])})

\* (char_count / 4.0).ceil()
estimate_english_tokens(text) == (Len(text) + 3) \div 4

\* (cjk * 1.5 + other * 0.25).ceil(), in quarters: (6*cjk + other) / 4 rounded up
estimate_chinese_tokens(text) ==
    LET cjk == CjkCount(text)
        other == Len(text) - cjk
    IN  (6 * cjk + other + 3) \div 4

estimate_mixed_tokens(text) ==
    IF \E i \in 1..Len(text) : is_cjk_character(text[i])
    THEN estimate_chinese_tokens(text)
    ELSE estimate_english_tokens(text)

\* ------------------------------------------------------ str::lines, join
\* split_inclusive('\n'): the pieces of the text, each ending with its LF
RECURSIVE SplitInclusive(_, _)
SplitInclusive(text, cur) ==
    LET feeds == {i \in 1..Len(text) : text[i] = "LF"}
    IN  IF text = <<>> THEN (IF cur = <<>> THEN <<>> ELSE <<cur>>)
        ELSE IF feeds = {} THEN <<cur \o text>>
        ELSE LET first == CHOOSE i \in feeds : \A j \in feeds : i <= j
             IN  <<cur \o SubSeq(text, 1, first)>>
                     \o SplitInclusive(SubSeq(text, first + 1, Len(text)), <<>>)

\* a piece without its LF and without the CR before that LF; a piece that
\* does not end with LF (the last one) is kept whole
StripLineEnding(piece) ==
    IF piece # <<>> /\ piece[Len(piece)] = "LF"
    THEN LET noLf == SubSeq(piece, 1, Len(piece) - 1)
         IN  IF noLf # <<>> /\ noLf[Len(noLf)] = "CR"
             THEN SubSeq(noLf, 1, Len(noLf) - 1)
             ELSE noLf
    ELSE piece

Lines(text) ==
    LET pieces == SplitInclusive(text, <<>>)
    IN  [i \in 1..Len(pieces) |-> StripLineEnding(pieces[i])]

\* [&str].join("\n")
RECURSIVE Join(_)
Join(lines) ==
    IF lines = <<>> THEN <<>>
    ELSE IF Len(lines) = 1 THEN lines[1]
    ELSE lines[1] \o <<"LF">> \o Join(Tail(lines))

\* ------------------------------------------------- translate/splitter.rs
FileChunk(lines, start, end, name) ==
    [content |-> Join(lines), start_line |-> start, end_line |-> end,
     target_filename |-> name]

\* SplitStep with the closed chunk ending at the current line
SplitStepEndAtCurrentLine(st, line, line_number, budget, name) ==
    LET line_token_count == estimate_mixed_tokens(line)
    IN  IF st.current_chunk_lines # <<>>
           /\ st.current_token_count + line_token_count > budget
        THEN [chunks |-> Append(st.chunks,
                                FileChunk(st.current_chunk_lines, st.start_line,
                                          line_number, name)),
              current_chunk_lines |-> <<line>>,
              current_token_count |-> line_token_count,
              start_line |-> line_number]
        ELSE [st EXCEPT !.current_chunk_lines = Append(@, line),
                        !.current_token_count = @ + line_token_count]

\* SplitStep closing the chunk already when the line fills it exactly
SplitStepCloseEarly(st, line, line_number, budget, name) ==
    LET line_token_count == estimate_mixed_tokens(line)
    IN  IF st.current_chunk_lines # <<>>
           /\ st.current_token_count + line_token_count >= budget
        THEN [chunks |-> Append(st.chunks,
                                FileChunk(st.current_chunk_lines, st.start_line,
                                          line_number - 1, name)),
              current_chunk_lines |-> <<line>>,
              current_token_count |-> line_token_count,
              start_line |-> line_number]
        ELSE [st EXCEPT !.current_chunk_lines = Append(@, line),
                        !.current_token_count = @ + line_token_count]

\* SplitStep closing the chunk only once it is over the budget
SplitStepCloseLate(st, line, line_number, budget, name) ==
    LET line_token_count == estimate_mixed_tokens(line)
    IN  IF st.current_chunk_lines # <<>>
           /\ st.current_token_count > budget
        THEN [chunks |-> Append(st.chunks,
                                FileChunk(st.current_chunk_lines, st.start_line,
                                          line_number - 1, name)),
              current_chunk_lines |-> <<line>>,
              current_token_count |-> line_token_count,
              start_line |-> line_number]
        ELSE [st EXCEPT !.current_chunk_lines = Append(@, line),
                        !.current_token_count = @ + line_token_count]

\* one iteration of the for loop over the lines; st holds the loop's locals
SplitStep(st, line, line_number, budget, name) ==
    LET line_token_count == estimate_mixed_tokens(line)
    IN  IF st.current_chunk_lines # <<>>
           /\ st.current_token_count + line_token_count > budget
        THEN [chunks |-> Append(st.chunks,
                                FileChunk(st.current_chunk_lines, st.start_line,
                                          line_number - 1, name)),
              current_chunk_lines |-> <<line>>,
              current_token_count |-> line_token_count,
              start_line |-> line_number]
        ELSE [st EXCEPT !.current_chunk_lines = Append(@, line),
                        !.current_token_count = @ + line_token_count]

RECURSIVE SplitLoop(_, _, _, _, _)
SplitLoop(st, lines, i, budget, name) ==
    IF i > Len(lines) THEN st
    ELSE SplitLoop(SplitStep(st, lines[i], i, budget, name), lines, i + 1, budget, name)

split_yaml_content(target_filename, text, budget) ==
    LET lines == Lines(text)
        st0 == [chunks |-> <<>>, current_chunk_lines |-> <<>>,
                current_token_count |-> 0, start_line |-> 1]
        st == SplitLoop(st0, lines, 1, budget, target_filename)
    IN  IF lines = <<>> THEN <<>>
        ELSE IF st.current_chunk_lines # <<>>
             THEN Append(st.chunks,
                         FileChunk(st.current_chunk_lines, st.start_line,
                                   Len(lines), target_filename))
             ELSE st.chunks

\* --------------------------------------------------- postprocess/merger.rs
TranslationSlice(text, start, end) ==
    [content |-> text, start_line |-> start, end_line |-> end]

\* sort_by_key(|s| s.start_line): a stable sort
RECURSIVE InsertByStartLine(_, _)
InsertByStartLine(sorted, s) ==
    IF sorted = <<>> THEN <<s>>
    ELSE IF s.start_line < Head(sorted).start_line THEN <<s>> \o sorted
    ELSE <<Head(sorted)>> \o InsertByStartLine(Tail(sorted), s)

RECURSIVE SortByStartLine(_)
SortByStartLine(ss) ==
    IF ss = <<>> THEN <<>>
    ELSE InsertByStartLine(SortByStartLine(SubSeq(ss, 1, Len(ss) - 1)), ss[Len(ss)])

Contiguous(sorted) ==
    \A i \in 2..Len(sorted) : sorted[i].start_line = sorted[i - 1].end_line + 1

MergeOk(text) == [ok |-> TRUE, text |-> text, err |-> "none"]
MergeErr(e) == [ok |-> FALSE, text |-> <<>>, err |-> e]

\* merge_slices without the contiguity check
merge_slices_unchecked(ss) ==
    IF ss = <<>> THEN MergeErr("InconsistentSlices")
    ELSE LET sorted_slices == SortByStartLine(ss)
         IN  MergeOk(Join(Flatten([i \in 1..Len(sorted_slices) |->
                                     Lines(sorted_slices[i].content)])))

\* merge_slices taking the slices in the order given, without the sort
merge_slices_unsorted(ss) ==
    IF ss = <<>> THEN MergeErr("InconsistentSlices")
    ELSE IF ~Contiguous(ss) THEN MergeErr("MergeFailed")
    ELSE MergeOk(Join(Flatten([i \in 1..Len(ss) |-> Lines(ss[i].content)])))

\* merge_slices giving an empty text for no slices
merge_slices_of_none_ok(ss) ==
    IF ss = <<>> THEN MergeOk(<<>>)
    ELSE LET sorted_slices == SortByStartLine(ss)
         IN  IF ~Contiguous(sorted_slices) THEN MergeErr("MergeFailed")
             ELSE MergeOk(Join(Flatten([i \in 1..Len(sorted_slices) |->
                                          Lines(sorted_slices[i].content)])))

merge_slices(ss) ==
    IF ss = <<>> THEN MergeErr("InconsistentSlices")
    ELSE LET sorted_slices == SortByStartLine(ss)
         IN  IF ~Contiguous(sorted_slices) THEN MergeErr("MergeFailed")
             ELSE MergeOk(Join(Flatten([i \in 1..Len(sorted_slices) |->
                                          Lines(sorted_slices[i].content)])))

\* the TranslationSlice translate_one_file builds for a chunk from the text
\* the translator returned for it
SliceOfChunk(chunk, text) == TranslationSlice(text, chunk.start_line, chunk.end_line)

\* ---------------------------------------------------------- FormatValidator
\* The three delimiters of the marker families: "POUND" is the pound sign of
\* an icon, "DOLLAR" the dollar sign of a variable, "SECTION" the section
\* sign of a colour code.  "i", "v" and "c" are marker contents.
IconDelimiter == "POUND"
VariableDelimiter == "DOLLAR"
ColorDelimiter == "SECTION"

\* Regex::find_iter for the pattern  d[^d]+d : the leftmost matches that do
\* not overlap, searched from position i on.  A match opens at the first
\* delimiter and closes at the next one; when the next one follows at once
\* there is no match there and the search goes on from that second delimiter;
\* after a match it goes on behind the closing delimiter.
RECURSIVE find_iter(_, _, _)
find_iter(text, d, i) ==
    LET delimiters == {j \in i..Len(text) : text[j] = d}
    IN  IF Cardinality(delimiters) < 2 THEN <<>>
        ELSE LET open == CHOOSE o \in delimiters : \A j \in delimiters : o <= j
                 later == delimiters \ {open}
                 close == CHOOSE c \in later : \A j \in later : c <= j
             IN  IF close = open + 1
                 THEN find_iter(text, d, close)
                 ELSE <<SubSeq(text, open, close)>> \o find_iter(text, d, close + 1)

\* FormatValidator::validate checking the icons and the variables only
validate_without_colors(original, translated) ==
    IF find_iter(original, IconDelimiter, 1) # find_iter(translated, IconDelimiter, 1)
    THEN <<"Icon markers mismatch">>
    ELSE IF find_iter(original, VariableDelimiter, 1)
                # find_iter(translated, VariableDelimiter, 1)
    THEN <<"Variable markers mismatch">>
    ELSE <<>>

\* FormatValidator::validate: Err with the message of the first family whose
\* matches differ, in the order icons, variables, colours; Ok(()) when none
\* differs.  The result is given as the list of the messages it carries.
validate(original, translated) ==
    IF find_iter(original, IconDelimiter, 1) # find_iter(translated, IconDelimiter, 1)
    THEN <<"Icon markers mismatch">>
    ELSE IF find_iter(original, VariableDelimiter, 1)
                # find_iter(translated, VariableDelimiter, 1)
    THEN <<"Variable markers mismatch">>
    ELSE IF find_iter(original, ColorDelimiter, 1) # find_iter(translated, ColorDelimiter, 1)
    THEN <<"Color markers mismatch">>
    ELSE <<>>

\* ------------------------------------------------------------------ Glossary
\* A term, a term id and a language name are Strings; a term and an id are
\* sequences of characters here.  "A" is the upper-case form of "a"; "b" and
\* "k" are other lower-case letters.  Option<String> is a sequence of at most
\* one String: <<>> is None, <<s>> is Some(s).
None == <<>>
Some(s) == <<s>>

\* the language fields of GlossaryItem kept here, two of the ten
GlossaryLangs == {"english", "simp_chinese"}

GlossaryItem(english, simp_chinese) == [english |-> english, simp_chinese |-> simp_chinese]

\* GlossaryItem::get: the field of the language, None for any other name
get(item, lang) ==
    CASE lang = "english"      -> item.english
      [] lang = "simp_chinese" -> item.simp_chinese
      [] OTHER                 -> None

\* the entry of Glossary.entries under a key, as an Option
entries_get(entries, key) ==
    IF \E e \in entries : e.key = key
    THEN Some((CHOOSE e \in entries : e.key = key).item)
    ELSE None

\* the orders in which a HashMap may hand out its entries
EntryOrders(entries) ==
    {o \in SeqsUpTo(entries, Cardinality(entries)) :
         Len(o) = Cardinality(entries) /\ \A e \in entries : \E k \in 1..Len(o) : o[k] = e}

\* HashMap::insert on a map kept as a set of <<key, value>> pairs
map_insert(map, k, v) == {p \in map : p[1] # k} \cup {<<k, v>>}

\* get_translation_map inserting an entry as soon as it has the source value
RECURSIVE get_translation_map_any_target(_, _, _)
get_translation_map_any_target(order, source, target) ==
    IF order = <<>> THEN {}
    ELSE LET item == order[Len(order)].item
             before == get_translation_map_any_target(SubSeq(order, 1, Len(order) - 1),
                                                      source, target)
         IN  IF get(item, source) # None
             THEN map_insert(before, get(item, source)[1],
                             IF get(item, target) # None THEN get(item, target)[1] ELSE <<>>)
             ELSE before

\* Glossary::get_translation_map, the entries taken in the given order: an
\* entry with a value for both languages inserts source term -> target term
RECURSIVE get_translation_map(_, _, _)
get_translation_map(order, source, target) ==
    IF order = <<>> THEN {}
    ELSE LET item == order[Len(order)].item
             before == get_translation_map(SubSeq(order, 1, Len(order) - 1), source, target)
         IN  IF get(item, source) # None /\ get(item, target) # None
             THEN map_insert(before, get(item, source)[1], get(item, target)[1])
             ELSE before

\* str::to_lowercase
to_lowercase(text) == [i \in 1..Len(text) |-> IF text[i] = "A" THEN "a" ELSE text[i]]

\* str::contains with a string pattern
contains(text, pattern) ==
    \E i \in 0..(Len(text) - Len(pattern)) : SubSeq(text, i + 1, i + Len(pattern)) = pattern

\* Glossary::find_terms_in_text, the entries taken in the given order: the
\* text is lower-cased, the term is searched for as it is written
RECURSIVE find_terms_in_text(_, _, _)
find_terms_in_text(order, text, source) ==
    IF order = <<>> THEN <<>>
    ELSE LET item == Head(order).item
             rest == find_terms_in_text(Tail(order), text, source)
         IN  IF get(item, source) # None /\ contains(to_lowercase(text), get(item, source)[1])
             THEN <<get(item, source)[1]>> \o rest
             ELSE rest

\* Glossary::to_csv without its header line: for each word, the entry whose
\* KEY is the word, and a row when that entry has both values
RECURSIVE to_csv(_, _, _, _)
to_csv(entries, source, target, source_words) ==
    IF source_words = <<>> THEN <<>>
    ELSE LET found == entries_get(entries, Head(source_words))
             rest == to_csv(entries, source, target, Tail(source_words))
         IN  IF found # None /\ get(found[1], source) # None /\ get(found[1], target) # None
             THEN <<<<get(found[1], source)[1], get(found[1], target)[1]>>>> \o rest
             ELSE rest

\* ------------------------------------------------------ postprocess/merger.rs
\* reconstruct_yaml_file: merge_slices, then the header and a newline in
\* front when the merged text has no "l_" in it and the header is not empty
reconstruct_yaml_file(ss, header) ==
    LET m == merge_slices(ss)
    IN  IF ~m.ok THEN m
        ELSE IF ~contains(m.text, <<"l", "_">>) /\ header # <<>>
        THEN MergeOk(header \o <<"LF">> \o m.text)
        ELSE m

\* ------------------------------------------------------ postprocess/writer.rs
\* str::replace: every match of the pattern, found from left to right without
\* overlap, is replaced
RECURSIVE replace(_, _, _)
replace(text, from, to) ==
    IF Len(text) < Len(from) THEN text
    ELSE IF SubSeq(text, 1, Len(from)) = from
    THEN to \o replace(SubSeq(text, Len(from) + 1, Len(text)), from, to)
    ELSE <<Head(text)>> \o replace(Tail(text), from, to)

YmlExtension == <<".", "y", "m", "l">>
YamlExtension == <<".", "y", "a", "m", "l">>

\* generate_target_filename: the three replacements one after the other
generate_target_filename(name, source_lang, target_lang) ==
    LET tagged == replace(name, <<"l", "_">> \o source_lang, <<"l", "_">> \o target_lang)
        yml == replace(tagged, <<"_">> \o source_lang \o YmlExtension,
                       <<"_">> \o target_lang \o YmlExtension)
    IN  replace(yml, <<"_">> \o source_lang \o YamlExtension,
                <<"_">> \o target_lang \o YamlExtension)

\* ------------------------------------------------- Glossary::from_json_file
\* A JSON value under a language key of an entry: the key is absent, or its
\* value is null, a number, or a string.
JsonAbsent == [kind |-> "absent", text |-> <<>>]
JsonNull == [kind |-> "null", text |-> <<>>]
JsonNumber == [kind |-> "number", text |-> <<>>]
JsonString(s) == [kind |-> "string", text |-> s]

\* the value under a term id: an object with the keys "1" (english) and "2"
\* (simp_chinese) and maybe a key that is no language number, or a value
\* that is no object
JsonEntry(one, two, other) == [kind |-> "object", one |-> one, two |-> two, other |-> other]
JsonNoObject == [kind |-> "string", one |-> JsonAbsent, two |-> JsonAbsent, other |-> FALSE]

\* Option<String> with #[serde(default)]: an absent key and null give None,
\* a string gives Some; any other value is a type error
deserialize_field(value) ==
    CASE value.kind = "string" -> [ok |-> TRUE, value |-> Some(value.text)]
      [] value.kind = "number" -> [ok |-> FALSE, value |-> None]
      [] OTHER                 -> [ok |-> TRUE, value |-> None]

\* GlossaryItem::deserialize: RawItem::deserialize, which ignores unknown
\* keys, then the check that at least one language field is_some
deserialize(raw) ==
    IF raw.kind # "object" THEN [ok |-> FALSE, item |-> GlossaryItem(None, None)]
    ELSE IF ~deserialize_field(raw.one).ok \/ ~deserialize_field(raw.two).ok
    THEN [ok |-> FALSE, item |-> GlossaryItem(None, None)]
    ELSE IF deserialize_field(raw.one).value = None /\ deserialize_field(raw.two).value = None
    THEN [ok |-> FALSE, item |-> GlossaryItem(None, None)]
    ELSE [ok |-> TRUE,
          item |-> GlossaryItem(deserialize_field(raw.one).value,
                                deserialize_field(raw.two).value)]

\* Glossary::from_json_file: the file is read and parsed; a JSON object gives
\* the entries whose value deserializes, the others are logged and skipped;
\* anything but an object is an error
from_json_file(file) ==
    CASE file.kind = "unreadable" -> [ok |-> FALSE, entries |-> {}, err |-> "GlossaryError: read"]
      [] file.kind = "bad_json"   -> [ok |-> FALSE, entries |-> {}, err |-> "GlossaryError: json"]
      [] file.kind = "object"     ->
             [ok |-> TRUE,
              entries |-> {[key |-> r.key, item |-> deserialize(r.value).item] :
                               r \in {x \in file.entries : deserialize(x.value).ok}},
              err |-> "none"]
      [] OTHER                    ->
             [ok |-> FALSE, entries |-> {}, err |-> "GlossaryError: not a JSON object"]

\* ------------------------------------------------ Glossary::merge_glossaries
\* HashMap::insert of every entry of a glossary into the merged entries
insert_entries(merged_entries, entries) ==
    {e \in merged_entries : ~\E n \in entries : n.key = e.key} \cup entries

\* merge_glossaries keeping the entry an id already has
RECURSIVE merge_glossaries_first_wins(_)
merge_glossaries_first_wins(glossaries) ==
    IF glossaries = <<>> THEN {}
    ELSE LET before == merge_glossaries_first_wins(SubSeq(glossaries, 1, Len(glossaries) - 1))
         IN  insert_entries(glossaries[Len(glossaries)], before)

\* Glossary::merge_glossaries: the glossaries in list order, each entry
\* inserted under its key
RECURSIVE merge_glossaries(_)
merge_glossaries(glossaries) ==
    IF glossaries = <<>> THEN {}
    ELSE LET before == merge_glossaries(SubSeq(glossaries, 1, Len(glossaries) - 1))
         IN  insert_entries(before, glossaries[Len(glossaries)])

\* ------------------------------------------------ Translator::load_system_prompt
\* the byte order of the characters of terms: "A" < "a" < "b" < "k" < "H"
CharRank(c) ==
    CASE c = "A" -> 1
      [] c = "a" -> 2
      [] c = "b" -> 3
      [] c = "k" -> 4
      [] OTHER   -> 5

\* Ord for String: s < t
RECURSIVE StrLess(_, _)
StrLess(s, t) ==
    IF t = <<>> THEN FALSE
    ELSE IF s = <<>> THEN TRUE
    ELSE IF Head(s) # Head(t) THEN CharRank(Head(s)) < CharRank(Head(t))
    ELSE StrLess(Tail(s), Tail(t))

\* Vec::sort, by insertion
RECURSIVE InsertSorted(_, _)
InsertSorted(sorted, s) ==
    IF sorted = <<>> THEN <<s>>
    ELSE IF StrLess(s, Head(sorted)) THEN <<s>> \o sorted
    ELSE <<Head(sorted)>> \o InsertSorted(Tail(sorted), s)

RECURSIVE sort(_)
sort(terms) == IF terms = <<>> THEN <<>> ELSE InsertSorted(sort(Tail(terms)), Head(terms))

\* Vec::dedup: of equal neighbours the first is kept
RECURSIVE dedup(_)
dedup(terms) ==
    IF Len(terms) <= 1 THEN terms
    ELSE IF terms[1] = terms[2] THEN dedup(Tail(terms))
    ELSE <<Head(terms)>> \o dedup(Tail(terms))

NoTermsMarker == [kind |-> "no_terms", header |-> <<>>, rows |-> <<>>]

\* load_system_prompt from the search for terms on: what is put in place of
\* the placeholder.  No term found: the "no related terms" marker.  Else the
\* header line and, after it, the lines of to_csv past its own header.
load_system_prompt(entries, order, source, target, source_text) ==
    LET all_found_terms == dedup(sort(find_terms_in_text(order, source_text, source)))
    IN  IF all_found_terms = <<>>
        THEN NoTermsMarker
        ELSE [kind |-> "table", header |-> <<source, target>>,
              rows |-> to_csv(entries, source, target, all_found_terms)]

\* ------------------------------------------------------------- idle values
NoMerge == [ok |-> FALSE, text |-> <<>>, err |-> "pending"]
NoBatchResult == [status |-> "pending", slices |-> <<>>, errors |-> <<>>]
TargetFilename == "l_simp_chinese_events.yml"

SettingsIdle == concurrency = 1 /\ max_retries = 0
BatchIdle == futures = <<>> /\ completion_order = <<>> /\ batch_result = NoBatchResult
ValidateIdle ==
    validate_original = <<>> /\ validate_translated = <<>> /\ validate_issues = <<>>
NoGlossary == {}
NoTable == [kind |-> "none", header |-> <<>>, rows |-> <<>>]
NoJson == [kind |-> "none", entries |-> {}]
GlossaryIdle ==
    /\ glossary = NoGlossary /\ query_source_lang = "" /\ query_target_lang = ""
    /\ chunk_text = <<>>
    /\ translation_map = {} /\ found_terms = <<>> /\ term_table = NoTable
    /\ raw_json = NoJson /\ load_error = "none" /\ glossary_list = <<>>
FileIdle ==
    /\ original_header = <<>> /\ reconstructed = NoMerge
    /\ source_filename = <<>> /\ name_source_lang = <<>> /\ name_target_lang = <<>>
    /\ generated_filename = <<>>
LibraryIdle == ValidateIdle /\ GlossaryIdle /\ FileIdle
NoResponse == [outcome |-> "none", text |-> <<>>]
TaskIdle ==
    /\ ntasks = 0 /\ nlangs = 0 /\ files = <<>>
    /\ api_key_set = FALSE /\ task_file = "none" /\ temperature = 0 /\ timeout_secs = 0
    /\ tasks = <<>> /\ run_error = "none" /\ response = NoResponse
    /\ task_idx = 0 /\ lang_idx = 0 /\ file_idx = 0 /\ chunk_idx = 0
    /\ request_log = <<>> /\ written = {}

\* ================================================================ SpecSplit
\* split_yaml_content on a text, then merge_slices on the slices that carry
\* the chunks' own content and line ranges.
InitSplit ==
    /\ pc = "split_input"
    /\ content \in SeqsUpTo(Chars, MaxTextLen)
    /\ max_chunk_tokens \in 1..MaxBudget
    /\ chunks = <<>>
    /\ slices = <<>>
    /\ merged = NoMerge
    /\ SettingsIdle
    /\ BatchIdle
    /\ LibraryIdle
    /\ TaskIdle

SplitYaml ==
    /\ pc = "split_input"
    /\ chunks' = split_yaml_content(TargetFilename, content, max_chunk_tokens)
    /\ pc' = "split_done"
    /\ UNCHANGED <<libraryVars, content, max_chunk_tokens, slices, merged, settingsVars, batchVars, taskInputs, taskVars>>

ChunksToSlices ==
    /\ pc = "split_done"
    /\ slices' = [i \in 1..Len(chunks) |-> SliceOfChunk(chunks[i], chunks[i].content)]
    /\ pc' = "sliced"
    /\ UNCHANGED <<libraryVars, content, max_chunk_tokens, chunks, merged, settingsVars, batchVars, taskInputs, taskVars>>

MergeSlices ==
    /\ pc = "sliced"
    /\ merged' = merge_slices(slices)
    /\ pc' = "merged"
    /\ UNCHANGED <<libraryVars, content, max_chunk_tokens, chunks, slices, settingsVars, batchVars, taskInputs, taskVars>>

NextSplit == SplitYaml \/ ChunksToSlices \/ MergeSlices

SpecSplit == InitSplit /\ [][NextSplit]_vars

\* ================================================================ SpecMerge
\* merge_slices on any list of slices.
SliceTexts == {<<"a">>, <<"H", "LF", "a">>}

LineRanges == {r \in (1..MaxLine) \X (1..MaxLine) : r[1] <= r[2]}

AnySlices == {TranslationSlice(t, r[1], r[2]) : t \in SliceTexts, r \in LineRanges}

InitMerge ==
    /\ pc = "sliced"
    /\ content = <<>>
    /\ max_chunk_tokens = 1
    /\ chunks = <<>>
    /\ slices \in SeqsUpTo(AnySlices, MaxSlices)
    /\ merged = NoMerge
    /\ SettingsIdle
    /\ BatchIdle
    /\ LibraryIdle
    /\ TaskIdle

NextMerge == MergeSlices

SpecMerge == InitMerge /\ [][NextMerge]_vars

\* ================================================================ SpecBatch
\* Translator::translate_batch on a list of chunks: one translate_chunk future
\* per chunk, all handed to join_all, then the loop over the outputs.

\* what the backend does with one request
Outcomes == {"ok", "transport", "timeout", "rate_limit", "auth", "bad_json", "no_choices"}

\* the failures C9 calls transient: transport, request timeout, rate limit
Transient == {"transport", "timeout", "rate_limit"}

\* texts the backend may answer with
BackendTexts == {<<"H">>, <<"H", "LF", "a">>}

\* ApiClient::chat_completions and the extraction of the first choice in
\* translate_chunk: the Display text of the error an outcome ends in
ErrorMessage(outcome) ==
    CASE outcome = "transport"  -> "Translation error: API request failed: connect"
      [] outcome = "timeout"    -> "Translation error: API request failed: timed out"
      [] outcome = "rate_limit" -> "API error: API request failed with status 429"
      [] outcome = "auth"       -> "API error: API request failed with status 401"
      [] outcome = "bad_json"   -> "Translation error: Invalid API response: json"
      [] outcome = "no_choices" ->
             "Translation error: Invalid API response: No choices in API response"
      [] outcome = "prompt"     ->
             "Translation error: Validation failed: Failed to load prompt template"

NewFuture == [state |-> "created", requests |-> 0, outcome |-> "none",
              text |-> <<>>, responded |-> FALSE]

\* translate_chunk up to its first suspension: load_system_prompt, which
\* fails when the template cannot be read, then the request is sent
translate_chunk_start(f, prompt_ok) ==
    IF prompt_ok
    THEN [f EXCEPT !.state = "inflight", !.requests = @ + 1]
    ELSE [f EXCEPT !.state = "err", !.outcome = "prompt"]

\* translate_chunk from the response on: chat_completions returns the error
\* of a failed request to its caller, and a response without choices is an
\* error too; otherwise the text becomes the slice's content
translate_chunk_finish(f, outcome, text) ==
    IF outcome = "ok"
    THEN [f EXCEPT !.state = "ok", !.outcome = outcome, !.text = text, !.responded = TRUE]
    ELSE [f EXCEPT !.state = "err", !.outcome = outcome, !.responded = TRUE]

\* try_join_all: the first error drops the futures still in flight
try_join_all_siblings(fs, i) ==
    [j \in 1..Len(fs) |->
        IF j # i /\ fs[i].state = "err" /\ fs[j].state = "inflight"
        THEN [fs[j] EXCEPT !.state = "err", !.outcome = "transport"]
        ELSE fs[j]]

\* join_all: a future that resolved, with whatever result, leaves the others
\* as they are
join_all_siblings(fs, i) == fs

\* outputs in the order the futures completed
join_all_completion_order(n, order) == order

\* join_all: the outputs are in the order of the futures handed in
join_all_outputs(n, order) == [i \in 1..n |-> i]

\* the error text of the first failure only
first_error_only(fs, outputs) ==
    LET failed == SelectSeq(outputs, LAMBDA i : fs[i].state = "err")
    IN  IF failed = <<>> THEN <<>> ELSE <<ErrorMessage(fs[failed[1]].outcome)>>

\* the Err arm of the loop over the outputs: every error's text is appended
collect_errors(fs, outputs) ==
    LET failed == SelectSeq(outputs, LAMBDA i : fs[i].state = "err")
    IN  [k \in 1..Len(failed) |-> ErrorMessage(fs[failed[k]].outcome)]

\* the Ok arm of the loop over the outputs
collect_results(fs, outputs, cs) ==
    LET done == SelectSeq(outputs, LAMBDA i : fs[i].state = "ok")
    IN  [k \in 1..Len(done) |-> SliceOfChunk(cs[done[k]], fs[done[k]].text)]

InFlight == {i \in 1..Len(futures) : futures[i].state = "inflight"}

\* chunks of the given numbers of lines, one after the other
RECURSIVE ChunksOfSizes(_, _)
ChunksOfSizes(sizes, first) ==
    IF sizes = <<>> THEN <<>>
    ELSE <<FileChunk([k \in 1..Head(sizes) |-> <<"a">>], first,
                     first + Head(sizes) - 1, TargetFilename)>>
         \o ChunksOfSizes(Tail(sizes), first + Head(sizes))

InitBatch ==
    /\ pc = "batch_called"
    /\ content = <<>>
    /\ max_chunk_tokens = 1
    /\ \E n \in 0..MaxChunks : chunks = ChunksOfSizes([i \in 1..n |-> 1 + (i % 2)], 1)
    /\ slices = <<>>
    /\ merged = NoMerge
    /\ concurrency \in 1..MaxConcurrency
    /\ max_retries \in {0, DefaultMaxRetries}
    /\ BatchIdle
    /\ LibraryIdle
    /\ TaskIdle

\* the first poll of join_all polls every future, in order
PollBatch ==
    /\ pc = "batch_called"
    /\ \E prompt_ok \in [1..Len(chunks) -> BOOLEAN] :
           futures' = [i \in 1..Len(chunks) |-> translate_chunk_start(NewFuture, prompt_ok[i])]
    /\ pc' = "batch_polling"
    /\ UNCHANGED <<libraryVars, splitVars, settingsVars, completion_order, batch_result, taskInputs, taskVars>>

\* the backend resolves the request of chunk i
Resolve(i, outcome, text) ==
    /\ pc = "batch_polling"
    /\ futures[i].state = "inflight"
    /\ futures' = join_all_siblings(
                      [futures EXCEPT ![i] = translate_chunk_finish(@, outcome, text)], i)
    /\ completion_order' = Append(completion_order, i)
    /\ UNCHANGED <<libraryVars, pc, splitVars, settingsVars, batch_result, taskInputs, taskVars>>

\* join_all is ready; the loop over the outputs and the return
ReturnBatch ==
    /\ pc = "batch_polling"
    /\ InFlight = {}
    /\ LET outputs == join_all_outputs(Len(futures), completion_order)
           errors == collect_errors(futures, outputs)
           has_error == \E k \in 1..Len(outputs) : futures[outputs[k]].state = "err"
       IN  batch_result' =
               IF has_error
               THEN [status |-> "err", slices |-> <<>>, errors |-> errors]
               ELSE [status |-> "ok", slices |-> collect_results(futures, outputs, chunks),
                     errors |-> <<>>]
    /\ pc' = "batch_returned"
    /\ UNCHANGED <<libraryVars, splitVars, settingsVars, futures, completion_order, taskInputs, taskVars>>

NextBatch ==
    \/ PollBatch
    \/ \E i \in 1..Len(futures) :
           \E outcome \in Outcomes :
               \E text \in (IF outcome = "ok" THEN BackendTexts ELSE {<<>>}) :
                   Resolve(i, outcome, text)
    \/ ReturnBatch

SpecBatch == InitBatch /\ [][NextBatch]_vars

\* the backend call of chunk i resolves, with some outcome
BackendResolves(i) ==
    /\ i \in 1..Len(futures)
    /\ \E outcome \in Outcomes :
           \E text \in (IF outcome = "ok" THEN BackendTexts ELSE {<<>>}) :
               Resolve(i, outcome, text)

\* the batches followed to their end: fewer chunks than MaxChunks
MaxFairChunks == 2

InitBatchFair == InitBatch /\ Len(chunks) <= MaxFairChunks

\* translate_batch with progress: the executor polls the batch and runs it
\* on when join_all is ready, and the HTTP client, built with a timeout,
\* ends every request
SpecBatchFair ==
    /\ InitBatchFair
    /\ [][NextBatch]_vars
    /\ WF_vars(PollBatch)
    /\ \A i \in 1..MaxFairChunks : WF_vars(BackendResolves(i))
    /\ WF_vars(ReturnBatch)

\* ================================================================= SpecTask
\* main: the API key and the task file, then the loop over the tasks;
\* translate_task's loops over the target languages and the source files, and
\* translate_one_file's loop over the chunks of a file, each chunk translated
\* by translate_chunk in turn.

\* ClientSettings::validate: max_chunk_tokens must be at least this
MinChunkTokens == 100

\* bodies of source files, after BOM and header are stripped: no line; one
\* line with a variable marker (one chunk); a short line and a line of 67 CJK
\* characters, which is more than MinChunkTokens tokens (two chunks)
FileBodies ==
    { <<>>,
      <<"DOLLAR", "v", "DOLLAR">>,
      <<"a", "LF">> \o [i \in 1..67 |-> "H"] }

\* ClientSettings::validate: the list of the errors found
client_settings_validate(settings) ==
    (IF settings.temperature < 0 \/ settings.temperature > 20
     THEN <<"temperature must be between 0.0 and 2.0">> ELSE <<>>)
    \o (IF settings.timeout_secs = 0
        THEN <<"timeout_secs must be greater than 0">> ELSE <<>>)
    \o (IF settings.max_chunk_tokens < MinChunkTokens
        THEN <<"max_chunk_tokens must be at least 100 characters">> ELSE <<>>)
    \o (IF settings.concurrency < 1
        THEN <<"concurrency must be at least 1">> ELSE <<>>)

\* TranslationTask::validate: "ok" or the error returned
task_validate(task) ==
    IF task.source_lang = "" THEN "MissingField: source_lang"
    ELSE IF task.target_langs = 0 THEN "MissingField: target_lang"
    ELSE IF ~task.localisation_dir_exists THEN "InvalidPath: localisation_dir"
    ELSE IF ~task.source_dir_exists THEN "InvalidPath: source_dir"
    ELSE "ok"

\* for task in &config.task { task.validate()? }
RECURSIVE validate_each_task(_)
validate_each_task(ts) ==
    IF ts = <<>> THEN "ok"
    ELSE IF task_validate(Head(ts)) # "ok" THEN task_validate(Head(ts))
    ELSE validate_each_task(Tail(ts))

\* TaskFileConfig::from_file stopping after the client settings
from_file_without_task_validation(config) ==
    IF config.file = "unreadable" THEN "InvalidPath: task file"
    ELSE IF config.file = "bad_toml" THEN "TomlParse"
    ELSE IF client_settings_validate(config.client_settings) # <<>> THEN "MultipleErrors"
    ELSE "ok"

\* TaskFileConfig::from_file: read, parse, validate the client settings, then
\* validate every task; "ok" or the first error
task_file_config_from_file(config) ==
    IF config.file = "unreadable" THEN "InvalidPath: task file"
    ELSE IF config.file = "bad_toml" THEN "TomlParse"
    ELSE IF client_settings_validate(config.client_settings) # <<>> THEN "MultipleErrors"
    ELSE validate_each_task(config.task)

\* TranslationTask::from_file: a task file without tasks is an error too
translation_task_from_file(config) ==
    IF task_file_config_from_file(config) # "ok" THEN task_file_config_from_file(config)
    ELSE IF config.task = <<>> THEN "MissingField: task"
    ELSE "ok"

ClientSettings(t, s, m, c) ==
    [temperature |-> t, timeout_secs |-> s, max_chunk_tokens |-> m, concurrency |-> c]

\* the client settings tried: the defaults with the smallest valid budget and
\* each valid concurrency, and settings with one or two invalid fields
SettingsChoices ==
    {ClientSettings(7, 600, MinChunkTokens, c) : c \in 1..MaxConcurrency}
        \cup { ClientSettings(-1, 600, MinChunkTokens, 1),
               ClientSettings(21, 600, MinChunkTokens, 1),
               ClientSettings(7, 0, MinChunkTokens, 1),
               ClientSettings(7, 600, MinChunkTokens - 1, 1),
               ClientSettings(7, 600, MinChunkTokens, 0),
               ClientSettings(21, 0, MinChunkTokens, 1) }

TranslationTask(source, targets, dir, source_dir) ==
    [source_lang |-> source, target_langs |-> targets,
     localisation_dir_exists |-> dir, source_dir_exists |-> source_dir]

\* the tasks tried: a valid one with n target languages, and one for each
\* check of TranslationTask::validate that fails
TaskChoices(n) ==
    { TranslationTask("english", n, TRUE, TRUE),
      TranslationTask("", n, TRUE, TRUE),
      TranslationTask("english", 0, TRUE, TRUE),
      TranslationTask("english", n, FALSE, FALSE),
      TranslationTask("english", n, TRUE, FALSE) }

\* the task file as the variables hold it
LoadedTaskFile ==
    [file |-> task_file,
     client_settings |-> ClientSettings(temperature, timeout_secs, max_chunk_tokens,
                                        concurrency),
     task |-> tasks]

\* the chunk loop goes on with the next chunk after a failed one
skip_failed_chunk == "chunk_loop"

\* the file loop goes on with the next file after a failed chunk
continue_after_chunk_error == "file_loop"

\* translate_chunk(..).await? in translate_one_file, translate_one_file(..)
\* .await? in translate_task and translate_task(..).await? in main: the error
\* of a chunk ends the run
chunk_error_propagates == "run_failed"

\* the other ? of translate_task and translate_one_file: glossary, translator,
\* directory walk, create_dir_all, read_to_string, reconstruct, write
io_error_propagates == "run_failed"

NewRequest(t, l, f, c) ==
    [task |-> t, lang |-> l, file |-> f, chunk |-> c, outcome |-> "inflight",
     issues |-> <<>>, returned |-> FALSE]

\* translate_chunk failing when the validator reports an issue
translate_chunk_strict(chunk, text) ==
    IF validate(chunk.content, text) # <<>>
    THEN [ok |-> FALSE, slice |-> <<>>, issues |-> validate(chunk.content, text)]
    ELSE [ok |-> TRUE, slice |-> <<SliceOfChunk(chunk, text)>>, issues |-> <<>>]

\* translate_chunk once the backend has answered with a text: the validator
\* is run, each issue is logged as a warning, and the slice with the text is
\* returned
translate_chunk_checked(chunk, text) ==
    [ok |-> TRUE, slice |-> <<SliceOfChunk(chunk, text)>>,
     issues |-> validate(chunk.content, text)]

InitTask ==
    /\ pc = "main_start"
    /\ content = <<>>
    /\ chunks = <<>>
    /\ slices = <<>>
    /\ merged = NoMerge
    /\ max_retries = DefaultMaxRetries
    /\ BatchIdle
    /\ LibraryIdle
    /\ api_key_set \in BOOLEAN
    /\ task_file \in {"ok", "unreadable", "bad_toml"}
    /\ \E settings \in SettingsChoices :
           /\ temperature = settings.temperature
           /\ timeout_secs = settings.timeout_secs
           /\ max_chunk_tokens = settings.max_chunk_tokens
           /\ concurrency = settings.concurrency
    /\ nlangs \in 1..MaxLangs
    /\ tasks \in SeqsUpTo(TaskChoices(nlangs), MaxTasks)
    /\ ntasks = Len(tasks)
    \* a run that stops at the task file never looks at a source file
    /\ files \in IF api_key_set /\ translation_task_from_file(LoadedTaskFile) = "ok"
                 THEN SeqsUpTo(FileBodies, MaxFiles)
                 ELSE {<<<<"DOLLAR", "v", "DOLLAR">>>>}
    /\ task_idx = 0 /\ lang_idx = 0 /\ file_idx = 0 /\ chunk_idx = 0
    /\ request_log = <<>>
    /\ written = {}
    /\ run_error = "none"
    /\ response = NoResponse

\* main before its loop: has_api_key, then TranslationTask::from_file
LoadConfig ==
    /\ pc = "main_start"
    /\ IF ~api_key_set
       THEN pc' = "run_failed" /\ run_error' = "MissingEnvVar"
       ELSE IF translation_task_from_file(LoadedTaskFile) # "ok"
       THEN pc' = "run_failed" /\ run_error' = translation_task_from_file(LoadedTaskFile)
       ELSE pc' = "main_loop" /\ UNCHANGED run_error
    /\ UNCHANGED <<libraryVars, splitVars, settingsVars, batchVars, taskInputs, task_idx,
                   lang_idx, file_idx, chunk_idx, request_log, written, response>>

\* main: the next task; translate_task loads the glossaries, builds the
\* translator and walks the source directory
NextTask ==
    /\ pc = "main_loop"
    /\ task_idx < ntasks
    /\ task_idx' = task_idx + 1
    /\ lang_idx' = 0
    /\ \E setup_ok \in BOOLEAN :
           IF setup_ok
           THEN pc' = "lang_loop" /\ UNCHANGED run_error
           ELSE pc' = io_error_propagates /\ run_error' = "setup"
    /\ UNCHANGED <<libraryVars, splitVars, settingsVars, batchVars, taskInputs, file_idx,
                   chunk_idx, request_log, written, response>>

TasksDone ==
    /\ pc = "main_loop"
    /\ task_idx = ntasks
    /\ pc' = "run_done"
    /\ UNCHANGED <<libraryVars, splitVars, settingsVars, batchVars, taskInputs, taskVars>>

\* translate_task: the next target language, and its output directory
NextLang ==
    /\ pc = "lang_loop"
    /\ lang_idx < nlangs
    /\ lang_idx' = lang_idx + 1
    /\ file_idx' = 0
    /\ \E mkdir_ok \in BOOLEAN :
           IF mkdir_ok
           THEN pc' = "file_loop" /\ UNCHANGED run_error
           ELSE pc' = io_error_propagates /\ run_error' = "create_dir_all"
    /\ UNCHANGED <<libraryVars, splitVars, settingsVars, batchVars, taskInputs, task_idx,
                   chunk_idx, request_log, written, response>>

LangsDone ==
    /\ pc = "lang_loop"
    /\ lang_idx = nlangs
    /\ pc' = "main_loop"
    /\ UNCHANGED <<libraryVars, splitVars, settingsVars, batchVars, taskInputs, taskVars>>

\* translate_one_file up to the chunk loop: the file is read and split
NextFile ==
    /\ pc = "file_loop"
    /\ file_idx < Len(files)
    /\ file_idx' = file_idx + 1
    /\ chunk_idx' = 0
    /\ response' = NoResponse
    /\ \E read_ok \in BOOLEAN :
           IF read_ok
           THEN /\ content' = files[file_idx + 1]
                /\ chunks' = split_yaml_content(TargetFilename, files[file_idx + 1],
                                                max_chunk_tokens)
                /\ slices' = <<>>
                /\ merged' = NoMerge
                /\ pc' = "chunk_loop"
                /\ UNCHANGED run_error
           ELSE /\ pc' = io_error_propagates
                /\ run_error' = "read"
                /\ UNCHANGED <<content, chunks, slices, merged>>
    /\ UNCHANGED <<libraryVars, max_chunk_tokens, settingsVars, batchVars, taskInputs,
                   task_idx, lang_idx, request_log, written>>

FilesDone ==
    /\ pc = "file_loop"
    /\ file_idx = Len(files)
    /\ pc' = "lang_loop"
    /\ UNCHANGED <<libraryVars, splitVars, settingsVars, batchVars, taskInputs, taskVars>>

\* the chunk loop takes the next chunk; translate_chunk on it, up to the
\* request being sent
SendChunk ==
    /\ pc = "chunk_loop"
    /\ chunk_idx < Len(chunks)
    /\ chunk_idx' = chunk_idx + 1
    /\ response' = NoResponse
    /\ \E prompt_ok \in BOOLEAN :
           IF prompt_ok
           THEN /\ request_log' = Append(request_log,
                                         NewRequest(task_idx, lang_idx, file_idx, chunk_idx + 1))
                /\ pc' = "awaiting"
                /\ UNCHANGED run_error
           ELSE /\ pc' = chunk_error_propagates
                /\ run_error' = "chunk"
                /\ UNCHANGED request_log
    /\ UNCHANGED <<libraryVars, splitVars, settingsVars, batchVars, taskInputs, task_idx,
                   lang_idx, file_idx, written>>

\* the backend answers; translate_chunk returns the slice or the error, and
\* translate_one_file pushes the slice or returns the error
Respond(outcome, text) ==
    /\ pc = "awaiting"
    /\ response' = [outcome |-> outcome, text |-> text]
    /\ IF outcome = "ok"
       THEN LET result == translate_chunk_checked(chunks[chunk_idx], text)
            IN  /\ request_log' = [request_log EXCEPT ![Len(request_log)] =
                                       [@ EXCEPT !.outcome = outcome,
                                                 !.issues = result.issues,
                                                 !.returned = result.ok]]
                /\ IF result.ok
                   THEN /\ slices' = Append(slices, result.slice[1])
                        /\ pc' = "chunk_loop"
                        /\ UNCHANGED run_error
                   ELSE /\ pc' = chunk_error_propagates
                        /\ run_error' = "validation"
                        /\ UNCHANGED slices
       ELSE /\ request_log' = [request_log EXCEPT ![Len(request_log)].outcome = outcome]
            /\ pc' = chunk_error_propagates
            /\ run_error' = "chunk"
            /\ UNCHANGED slices
    /\ UNCHANGED <<libraryVars, content, max_chunk_tokens, chunks, merged, settingsVars,
                   batchVars, taskInputs, task_idx, lang_idx, file_idx, chunk_idx, written>>

\* translate_one_file after the chunk loop: the slices are merged and the
\* file is written
FinishFile ==
    /\ pc = "chunk_loop"
    /\ chunk_idx = Len(chunks)
    /\ merged' = merge_slices(slices)
    /\ \E write_ok \in BOOLEAN :
           IF ~merge_slices(slices).ok
           THEN /\ pc' = io_error_propagates
                /\ run_error' = "merge"
                /\ UNCHANGED written
           ELSE IF ~write_ok
           THEN /\ pc' = io_error_propagates
                /\ run_error' = "write"
                /\ UNCHANGED written
           ELSE /\ written' = written \cup {<<task_idx, lang_idx, file_idx>>}
                /\ pc' = "file_loop"
                /\ UNCHANGED run_error
    /\ UNCHANGED <<libraryVars, content, max_chunk_tokens, chunks, slices, settingsVars,
                   batchVars, taskInputs, task_idx, lang_idx, file_idx, chunk_idx,
                   request_log, response>>

NextTaskRun ==
    \/ LoadConfig
    \/ NextTask
    \/ TasksDone
    \/ NextLang
    \/ LangsDone
    \/ NextFile
    \/ FilesDone
    \/ SendChunk
    \/ \E outcome \in Outcomes :
           \E text \in (IF outcome = "ok" THEN BackendTexts ELSE {<<>>}) :
               Respond(outcome, text)
    \/ FinishFile

SpecTask == InitTask /\ [][NextTaskRun]_vars

\* ============================================================= SpecValidate
\* FormatValidator::validate on a source text and a translated text.  The
\* texts are put together from pieces: prose, one marker of each family, an
\* icon with other contents, and a lone icon delimiter.
MaxOriginalPieces == 1
MaxTranslatedPieces == 3

MarkerPieces ==
    { <<"a">>,
      <<"POUND", "i", "POUND">>,
      <<"DOLLAR", "v", "DOLLAR">>,
      <<"SECTION", "c", "SECTION">>,
      <<"POUND", "a", "POUND">>,
      <<"POUND">> }

\* the text "Gain £icon£ 5 $var$": prose, an icon, prose, a variable
GainOriginal == <<"a", "POUND", "i", "POUND", "a", "DOLLAR", "v", "DOLLAR">>

OriginalTexts ==
    {Flatten(ps) : ps \in SeqsUpTo(MarkerPieces, MaxOriginalPieces)} \cup {GainOriginal}

TranslatedTexts == {Flatten(ps) : ps \in SeqsUpTo(MarkerPieces, MaxTranslatedPieces)}

InitValidate ==
    /\ pc = "validate_input"
    /\ content = <<>>
    /\ max_chunk_tokens = 1
    /\ chunks = <<>>
    /\ slices = <<>>
    /\ merged = NoMerge
    /\ SettingsIdle
    /\ BatchIdle
    /\ TaskIdle
    /\ GlossaryIdle
    /\ FileIdle
    /\ validate_original \in OriginalTexts
    /\ validate_translated \in TranslatedTexts
    /\ validate_issues = <<>>

Validate ==
    /\ pc = "validate_input"
    /\ validate_issues' = validate(validate_original, validate_translated)
    /\ pc' = "validated"
    /\ UNCHANGED <<validate_original, validate_translated, glossaryVars, fileVars, splitVars,
                   settingsVars, batchVars, taskInputs, taskVars>>

NextValidate == Validate

SpecValidate == InitValidate /\ [][NextValidate]_vars

\* ============================================================= SpecGlossary
\* get_translation_map, find_terms_in_text and the term table of
\* load_system_prompt, each on a glossary, a language pair and a chunk text.
MaxChunkTextLen == 2

TermIds == {<<"a">>, <<"k">>}
EnglishTerms == {<<"a">>, <<"b">>, <<"A", "b">>}
ChineseTerms == {<<"H">>}
TextChars == {"a", "A", "b", "H"}
QueryLangs == GlossaryLangs \cup {"klingon"}

\* GlossaryItem::deserialize refuses an item without any language value
GlossaryItems ==
    {GlossaryItem(e, c) : e \in {None} \cup {Some(t) : t \in EnglishTerms},
                          c \in {None} \cup {Some(t) : t \in ChineseTerms}}
        \ {GlossaryItem(None, None)}

GlossaryEntry(key, item) == [key |-> key, item |-> item]

\* Glossary.entries: at most one item under each term id
Glossaries ==
    UNION {{ {GlossaryEntry(k, f[k]) : k \in ids} : f \in [ids -> GlossaryItems] } :
               ids \in SUBSET TermIds}

InitGlossary ==
    /\ pc = "glossary_input"
    /\ content = <<>>
    /\ max_chunk_tokens = 1
    /\ chunks = <<>>
    /\ slices = <<>>
    /\ merged = NoMerge
    /\ SettingsIdle
    /\ BatchIdle
    /\ TaskIdle
    /\ ValidateIdle
    /\ FileIdle
    /\ glossary \in Glossaries
    /\ query_source_lang \in QueryLangs
    /\ query_target_lang \in QueryLangs
    /\ chunk_text \in SeqsUpTo(TextChars, MaxChunkTextLen)
    /\ translation_map = {}
    /\ found_terms = <<>>
    /\ term_table = NoTable
    /\ raw_json = NoJson
    /\ load_error = "none"
    /\ glossary_list = <<>>

GetTranslationMap ==
    /\ pc = "glossary_input"
    /\ \E order \in EntryOrders(glossary) :
           translation_map' = get_translation_map(order, query_source_lang, query_target_lang)
    /\ pc' = "map_built"
    /\ UNCHANGED <<raw_json, load_error, glossary_list,
                   glossary, query_source_lang, query_target_lang, chunk_text, found_terms,
                   term_table, validateVars, fileVars, splitVars, settingsVars, batchVars, taskInputs,
                   taskVars>>

FindTermsInText ==
    /\ pc = "glossary_input"
    /\ \E order \in EntryOrders(glossary) :
           found_terms' = find_terms_in_text(order, chunk_text, query_source_lang)
    /\ pc' = "terms_found"
    /\ UNCHANGED <<raw_json, load_error, glossary_list,
                   glossary, query_source_lang, query_target_lang, chunk_text,
                   translation_map, term_table, validateVars, fileVars, splitVars, settingsVars,
                   batchVars, taskInputs, taskVars>>

LoadSystemPrompt ==
    /\ pc = "glossary_input"
    /\ \E order \in EntryOrders(glossary) :
           term_table' = load_system_prompt(glossary, order, query_source_lang,
                                            query_target_lang, chunk_text)
    /\ pc' = "prompt_built"
    /\ UNCHANGED <<raw_json, load_error, glossary_list,
                   glossary, query_source_lang, query_target_lang, chunk_text,
                   translation_map, found_terms, validateVars, fileVars, splitVars, settingsVars,
                   batchVars, taskInputs, taskVars>>

NextGlossary == GetTranslationMap \/ FindTermsInText \/ LoadSystemPrompt

SpecGlossary == InitGlossary /\ [][NextGlossary]_vars

\* ========================================================= SpecGlossaryLoad
\* Glossary::from_json_file on what a glossary file may hold.
JsonOnes == {JsonAbsent, JsonNull, JsonNumber, JsonString(<<>>), JsonString(<<"a">>)}
JsonTwos == {JsonAbsent, JsonNull, JsonNumber, JsonString(<<"H">>)}

JsonEntries ==
    {JsonEntry(one, two, other) : one \in JsonOnes, two \in JsonTwos, other \in BOOLEAN}
        \cup {JsonNoObject}

\* a JSON object: at most one value under each term id
JsonObjects ==
    UNION {{ {[key |-> k, value |-> f[k]] : k \in ids} : f \in [ids -> JsonEntries] } :
               ids \in SUBSET TermIds}

JsonFiles ==
    {[kind |-> "object", entries |-> o] : o \in JsonObjects}
        \cup {[kind |-> k, entries |-> {}] : k \in {"unreadable", "bad_json", "array"}}

InitGlossaryLoad ==
    /\ pc = "glossary_file"
    /\ content = <<>>
    /\ max_chunk_tokens = 1
    /\ chunks = <<>>
    /\ slices = <<>>
    /\ merged = NoMerge
    /\ SettingsIdle
    /\ BatchIdle
    /\ TaskIdle
    /\ ValidateIdle
    /\ FileIdle
    /\ glossary = NoGlossary
    /\ query_source_lang = "" /\ query_target_lang = "" /\ chunk_text = <<>>
    /\ translation_map = {} /\ found_terms = <<>> /\ term_table = NoTable
    /\ raw_json \in JsonFiles
    /\ load_error = "none"
    /\ glossary_list = <<>>

FromJsonFile ==
    /\ pc = "glossary_file"
    /\ glossary' = from_json_file(raw_json).entries
    /\ load_error' = from_json_file(raw_json).err
    /\ pc' = IF from_json_file(raw_json).ok THEN "glossary_loaded" ELSE "glossary_load_failed"
    /\ UNCHANGED <<raw_json, glossary_list, query_source_lang, query_target_lang, chunk_text,
                   translation_map, found_terms, term_table, validateVars, fileVars, splitVars,
                   settingsVars, batchVars, taskInputs, taskVars>>

NextGlossaryLoad == FromJsonFile

SpecGlossaryLoad == InitGlossaryLoad /\ [][NextGlossaryLoad]_vars

\* ======================================================== SpecGlossaryMerge
\* load_glossaries_from_task from the loaded glossaries on: merge_glossaries
\* on the list, which is in the order of the task's glossary names.
MaxGlossaries == 2

MergeItems ==
    {GlossaryItem(Some(<<"a">>), Some(<<"H">>)), GlossaryItem(Some(<<"b">>), None),
     GlossaryItem(None, Some(<<"H">>))}

MergeInputs ==
    UNION {{ {GlossaryEntry(k, f[k]) : k \in ids} : f \in [ids -> MergeItems] } :
               ids \in SUBSET TermIds}

InitGlossaryMerge ==
    /\ pc = "glossaries_loaded"
    /\ content = <<>>
    /\ max_chunk_tokens = 1
    /\ chunks = <<>>
    /\ slices = <<>>
    /\ merged = NoMerge
    /\ SettingsIdle
    /\ BatchIdle
    /\ TaskIdle
    /\ ValidateIdle
    /\ FileIdle
    /\ glossary = NoGlossary
    /\ query_source_lang = "" /\ query_target_lang = "" /\ chunk_text = <<>>
    /\ translation_map = {} /\ found_terms = <<>> /\ term_table = NoTable
    /\ raw_json = NoJson
    /\ load_error = "none"
    /\ glossary_list \in SeqsUpTo(MergeInputs, MaxGlossaries)

MergeGlossaries ==
    /\ pc = "glossaries_loaded"
    /\ glossary' = merge_glossaries(glossary_list)
    /\ pc' = "glossaries_merged"
    /\ UNCHANGED <<raw_json, load_error, glossary_list, query_source_lang, query_target_lang,
                   chunk_text, translation_map, found_terms, term_table, validateVars, fileVars,
                   splitVars, settingsVars, batchVars, taskInputs, taskVars>>

NextGlossaryMerge == MergeGlossaries

SpecGlossaryMerge == InitGlossaryMerge /\ [][NextGlossaryMerge]_vars

\* ========================================================== SpecReconstruct
\* reconstruct_yaml_file on translated slices and a header.  The slice texts
\* are put together from pieces: prose, a line end, a language header line,
\* and a key with "l_" inside it.
MaxBodyPieces == 2

LanguageHeader == <<"l", "_", "c", ":">>

BodyPieces == {<<"a">>, <<"LF">>, LanguageHeader, <<"a", "l", "_", "a">>}

BodyTexts == {Flatten(ps) : ps \in SeqsUpTo(BodyPieces, MaxBodyPieces)}

\* the header of the target file; translate_one_file passes target_lang
Headers == {<<>>, LanguageHeader, <<"c">>}

ReconstructInputs ==
    {<<>>}
        \cup {<<TranslationSlice(t, 1, 1)>> : t \in BodyTexts}
        \cup {<<TranslationSlice(t, 1, 1), TranslationSlice(u, n, n)>> :
                  t \in BodyTexts, u \in BodyTexts, n \in 2..3}

InitReconstruct ==
    /\ pc = "translated"
    /\ content = <<>>
    /\ max_chunk_tokens = 1
    /\ chunks = <<>>
    /\ slices \in ReconstructInputs
    /\ merged = NoMerge
    /\ SettingsIdle
    /\ BatchIdle
    /\ TaskIdle
    /\ ValidateIdle
    /\ GlossaryIdle
    /\ original_header \in Headers
    /\ reconstructed = NoMerge
    /\ source_filename = <<>> /\ name_source_lang = <<>> /\ name_target_lang = <<>>
    /\ generated_filename = <<>>

ReconstructYamlFile ==
    /\ pc = "translated"
    /\ merged' = merge_slices(slices)
    /\ reconstructed' = reconstruct_yaml_file(slices, original_header)
    /\ pc' = IF merge_slices(slices).ok THEN "reconstructed" ELSE "reconstruct_failed"
    /\ UNCHANGED <<content, max_chunk_tokens, chunks, slices, original_header, source_filename,
                   name_source_lang, name_target_lang, generated_filename, validateVars,
                   glossaryVars, settingsVars, batchVars, taskInputs, taskVars>>

NextReconstruct == ReconstructYamlFile

SpecReconstruct == InitReconstruct /\ [][NextReconstruct]_vars

\* ============================================================= SpecFilename
\* generate_target_filename on a file name and two language codes.  The
\* name is put together from pieces and ends in .yml or .yaml.
MaxNameParts == 4

LangCodes == {<<"e">>, <<"c">>}

NameParts == {<<"l", "_">>, <<"_">>, <<"e">>, <<"c">>, <<"x">>}

Filenames ==
    {Flatten(ps) \o ext : ps \in SeqsUpTo(NameParts, MaxNameParts),
                          ext \in {YmlExtension, YamlExtension}}

InitFilename ==
    /\ pc = "filename_given"
    /\ content = <<>>
    /\ max_chunk_tokens = 1
    /\ chunks = <<>>
    /\ slices = <<>>
    /\ merged = NoMerge
    /\ SettingsIdle
    /\ BatchIdle
    /\ TaskIdle
    /\ ValidateIdle
    /\ GlossaryIdle
    /\ original_header = <<>>
    /\ reconstructed = NoMerge
    /\ source_filename \in Filenames
    /\ name_source_lang \in LangCodes
    /\ name_target_lang \in LangCodes
    /\ generated_filename = <<>>

GenerateTargetFilename ==
    /\ pc = "filename_given"
    /\ generated_filename' =
           generate_target_filename(source_filename, name_source_lang, name_target_lang)
    /\ pc' = "filename_generated"
    /\ UNCHANGED <<original_header, reconstructed, source_filename, name_source_lang,
                   name_target_lang, validateVars, glossaryVars, splitVars, settingsVars,
                   batchVars, taskInputs, taskVars>>

NextFilename == GenerateTargetFilename

SpecFilename == InitFilename /\ [][NextFilename]_vars

\* =================================================================== claims

\* C1: for every text that has at least one line and every budget >= 1, the
\* chunks of split_yaml_content, turned into slices with the same content and
\* line range and merged by merge_slices, give a text whose line sequence is
\* the line sequence of the input.  (The text without lines is left out: for
\* it merge_slices is handed no slice at all.)
RoundTripIdentity ==
    (pc = "merged" /\ Lines(content) # <<>>)
        => (merged.ok /\ Lines(merged.text) = Lines(content))

\* C2: for a non-empty content of N lines the chunks tile 1..N: the first
\* starts at 1, each has end_line >= start_line, each next one starts right
\* after the previous one ends, and the last ends at N.
ChunkTiling ==
    (pc = "split_done" /\ content # <<>>) =>
        LET N == Len(Lines(content))
        IN  /\ Len(chunks) >= 1
            /\ chunks[1].start_line = 1
            /\ \A i \in 1..Len(chunks) : chunks[i].end_line >= chunks[i].start_line
            /\ \A i \in 1..(Len(chunks) - 1) :
                   chunks[i + 1].start_line = chunks[i].end_line + 1
            /\ chunks[Len(chunks)].end_line = N

ChunkTilingWitness ==
    /\ pc = "split_done"
    /\ Len(chunks) >= 3
    /\ \E i \in 1..Len(chunks) : chunks[i].end_line > chunks[i].start_line

\* the orders of 1..n
Orders(n) == {p \in [1..n -> 1..n] : \A i, j \in 1..n : i # j => p[i] # p[j]}

\* an order of the slices by ascending start_line in which every slice starts
\* at the line after the end of the one before it
TilesInOrder(ss, p) ==
    /\ \A i \in 2..Len(ss) : ss[p[i - 1]].start_line <= ss[p[i]].start_line
    /\ \A i \in 2..Len(ss) : ss[p[i]].start_line = ss[p[i - 1]].end_line + 1

\* C3: for a non-empty list of slices merge_slices returns merged text exactly
\* when the slices, ordered by start_line, are contiguous (each starts at the
\* previous end_line + 1); with a gap or an overlap it returns an error and no
\* text, and the text it returns is that of the slices in that order.
MergeRejectsNonContiguous ==
    (pc = "merged" /\ slices # <<>>) =>
        /\ merged.ok <=> \E p \in Orders(Len(slices)) : TilesInOrder(slices, p)
        /\ ~merged.ok => (merged.text = <<>> /\ merged.err = "MergeFailed")
        /\ merged.ok =>
               \E p \in Orders(Len(slices)) :
                   /\ TilesInOrder(slices, p)
                   /\ merged.text =
                          Join(Flatten([i \in 1..Len(slices) |-> Lines(slices[p[i]].content)]))

MergeRejectsWitness ==
    /\ pc = "merged"
    /\ Len(slices) = 3
    /\ ~merged.ok
    /\ slices[1].start_line = 1 /\ slices[1].end_line = 1
    /\ slices[2].start_line = 2 /\ slices[2].end_line = 2
    /\ slices[3].start_line = 2

\* C4: every chunk of more than one line has estimate_mixed_tokens(content)
\* <= max_chunk_tokens, the estimate being that of the chunk's whole content.
TokenBudgetSoftBound ==
    pc = "split_done" =>
        \A i \in 1..Len(chunks) :
            chunks[i].end_line > chunks[i].start_line
                => estimate_mixed_tokens(chunks[i].content) <= max_chunk_tokens

\* C5: during translate_batch the number of chunk requests in flight at the
\* backend never exceeds ClientSettings.concurrency.
ConcurrencyBound == Cardinality(InFlight) <= concurrency

Failed == {i \in 1..Len(futures) : futures[i].state = "err"}

\* C6: when translate_batch succeeds it returns one slice per input chunk and
\* the i-th slice carries the line range of the i-th chunk, in whatever order
\* the backend answered.
BatchResultOrder ==
    (pc = "batch_returned" /\ batch_result.status = "ok") =>
        /\ Len(batch_result.slices) = Len(chunks)
        /\ \A i \in 1..Len(chunks) :
               /\ batch_result.slices[i].start_line = chunks[i].start_line
               /\ batch_result.slices[i].end_line = chunks[i].end_line

BatchResultOrderWitness ==
    /\ pc = "batch_returned"
    /\ batch_result.status = "ok"
    /\ Len(chunks) = 3
    /\ completion_order = <<3, 1, 2>>

\* C7: a failed backend call cancels or skips no sibling: when translate_batch
\* returns, every chunk whose request was built has had exactly one backend
\* call issued and has had it resolved, whichever chunks failed and in
\* whatever order (n calls for n chunks).
BatchIsolation ==
    pc = "batch_returned" =>
        \A i \in 1..Len(futures) :
            futures[i].outcome # "prompt"
                => (futures[i].requests = 1 /\ futures[i].responded)

BatchIsolationWitness ==
    /\ pc = "batch_returned"
    /\ Len(chunks) = 3
    /\ completion_order = <<2, 1, 3>>
    /\ futures[2].state = "err"
    /\ futures[1].state = "ok" /\ futures[3].state = "ok"
    /\ \A i \in 1..3 : futures[i].requests = 1

\* C8: translate_batch returns an error exactly when some chunk failed, only
\* after every chunk has resolved, and the error holds the message of every
\* failed chunk; with no failure it returns the slices and no error.
AggregateBatchError ==
    /\ batch_result.status # "pending" =>
           \A i \in 1..Len(futures) : futures[i].state \in {"ok", "err"}
    /\ pc = "batch_returned" =>
           /\ batch_result.status = "err" <=> Failed # {}
           /\ batch_result.status = "err" =>
                  /\ batch_result.slices = <<>>
                  /\ Len(batch_result.errors) = Cardinality(Failed)
                  /\ \A i \in Failed :
                         \E k \in 1..Len(batch_result.errors) :
                             batch_result.errors[k] = ErrorMessage(futures[i].outcome)
           /\ batch_result.status = "ok" =>
                  /\ batch_result.errors = <<>>
                  /\ Len(batch_result.slices) = Len(chunks)

AggregateBatchErrorWitness ==
    /\ pc = "batch_returned"
    /\ batch_result.status = "err"
    /\ Len(chunks) = 3
    /\ futures[1].outcome = "auth"
    /\ futures[2].state = "ok"
    /\ futures[3].outcome = "timeout"

\* C9: a chunk request that fails with a transient failure is re-attempted:
\* a chunk is reported failed with such a failure only after 1 + max_retries
\* requests, and no chunk is requested more than 1 + max_retries times.
RetryPolicy ==
    \A i \in 1..Len(futures) :
        /\ futures[i].requests <= 1 + max_retries
        /\ (futures[i].state = "err" /\ futures[i].outcome \in Transient)
               => futures[i].requests = 1 + max_retries

\* C10: a request the backend rejects for authentication is never sent again
\* and the run ends there: in every state, a request answered with an
\* authentication failure is the last request the run has started, nothing
\* is in flight and the run has failed.
AuthFailureAbortsRun ==
    \A k \in 1..Len(request_log) :
        request_log[k].outcome = "auth"
            => (k = Len(request_log) /\ pc = "run_failed")

AuthFailureWitness ==
    /\ pc = "run_failed"
    /\ Len(request_log) = 2
    /\ request_log[1].outcome = "ok"
    /\ request_log[2].outcome = "auth"
    /\ request_log[2].chunk = 2
    /\ file_idx < Len(files)
    /\ lang_idx < nlangs
    /\ task_idx < ntasks

\* The spans of a marker family in a text, said without a scan: a span
\* runs from a delimiter to the next delimiter with at least one character
\* between them, and the spans of a text are taken leftmost first, each
\* after the end of the one before.
IsSpan(text, d, i, j) ==
    /\ text[i] = d
    /\ text[j] = d
    /\ j >= i + 2
    /\ \A k \in (i + 1)..(j - 1) : text[k] # d

RECURSIVE SpanBoundsFrom(_, _, _)
SpanBoundsFrom(text, d, from) ==
    LET ms == {m \in (from..Len(text)) \X (from..Len(text)) : IsSpan(text, d, m[1], m[2])}
    IN  IF ms = {} THEN <<>>
        ELSE LET m == CHOOSE x \in ms : \A y \in ms : x[1] <= y[1]
             IN  <<m>> \o SpanBoundsFrom(text, d, m[2] + 1)

Spans(text, d) ==
    LET bs == SpanBoundsFrom(text, d, 1)
    IN  [k \in 1..Len(bs) |-> SubSeq(text, bs[k][1], bs[k][2])]

FamilyDiffers(d) == Spans(validate_original, d) # Spans(validate_translated, d)

MismatchingFamilies ==
    {d \in {IconDelimiter, VariableDelimiter, ColorDelimiter} : FamilyDiffers(d)}

FamilyMessage(d) ==
    CASE d = IconDelimiter     -> "Icon markers mismatch"
      [] d = VariableDelimiter -> "Variable markers mismatch"
      [] d = ColorDelimiter    -> "Color markers mismatch"

\* C16: validate reports exactly one issue for each marker family whose
\* ordered span sequence differs between the original and the translated
\* text and none for a family whose sequences are equal: the list has as
\* many issues as there are mismatching families (two or three when two or
\* three families differ) and is empty exactly when all three are equal.
ValidatorIssueList ==
    pc = "validated" =>
        /\ Len(validate_issues) = Cardinality(MismatchingFamilies)
        /\ \A d \in MismatchingFamilies :
               \E k \in 1..Len(validate_issues) : validate_issues[k] = FamilyMessage(d)
        /\ \A k \in 1..Len(validate_issues) :
               \E d \in MismatchingFamilies : validate_issues[k] = FamilyMessage(d)

IconOfGain == <<"POUND", "i", "POUND">>
VariableOfGain == <<"DOLLAR", "v", "DOLLAR">>

\* exactly one icon span and exactly one variable span, with the contents of
\* the original's, the icon before the variable as in the original
MarkersKeptInOrder(text) ==
    LET ib == SpanBoundsFrom(text, IconDelimiter, 1)
        vb == SpanBoundsFrom(text, VariableDelimiter, 1)
    IN  /\ Len(ib) = 1
        /\ Len(vb) = 1
        /\ SubSeq(text, ib[1][1], ib[1][2]) = IconOfGain
        /\ SubSeq(text, vb[1][1], vb[1][2]) = VariableOfGain
        /\ ib[1][1] < vb[1][1]

\* C17 as stated: for the original "Gain £icon£ 5 $var$" validate returns no
\* issues exactly when the translated text contains exactly one icon span
\* and exactly one variable span, with contents identical to £icon£ and
\* $var$, in the same order as in the original.
MarkerPreservationInOrder ==
    (pc = "validated" /\ validate_original = GainOriginal) =>
        (validate_issues = <<>> <=> MarkersKeptInOrder(validate_translated))

\* C17, amended: for the original "Gain £icon£ 5 $var$" validate returns no
\* issues exactly when the icon spans of the translated text are the one
\* span £icon£, its variable spans are the one span $var$, and it has no
\* colour span; where the two spans stand relative to each other and what
\* prose surrounds them makes no difference.
MarkerPreservation ==
    (pc = "validated" /\ validate_original = GainOriginal) =>
        (validate_issues = <<>> <=>
            /\ Spans(validate_translated, IconDelimiter) = <<IconOfGain>>
            /\ Spans(validate_translated, VariableDelimiter) = <<VariableOfGain>>
            /\ Spans(validate_translated, ColorDelimiter) = <<>>)

MarkerPreservationWitness ==
    /\ pc = "validated"
    /\ validate_original = GainOriginal
    /\ validate_issues = <<>>
    /\ validate_translated # validate_original
    /\ Len(validate_translated) > Len(IconOfGain) + Len(VariableOfGain)

HasBoth(e) ==
    get(e.item, query_source_lang) # None /\ get(e.item, query_target_lang) # None

\* C18: the map of get_translation_map(sourceLang, targetLang) contains a
\* pair (s, t) only if some entry has s as its sourceLang value and t as its
\* targetLang value, so an entry lacking either value contributes nothing;
\* and the source term of every entry that has both values is a key of it.
GlossaryLanguagePairFilter ==
    pc = "map_built" =>
        /\ \A p \in translation_map :
               \E e \in glossary :
                   /\ get(e.item, query_source_lang) = Some(p[1])
                   /\ get(e.item, query_target_lang) = Some(p[2])
        /\ \A e \in glossary :
               HasBoth(e) =>
                   \E p \in translation_map : Some(p[1]) = get(e.item, query_source_lang)

GlossaryLanguagePairFilterWitness ==
    /\ pc = "map_built"
    /\ translation_map # {}
    /\ \E e \in glossary : HasBoth(e)
    /\ \E e \in glossary : ~HasBoth(e) /\ get(e.item, query_source_lang) # None

\* the source terms of the entries that find_terms_in_text hands on to the
\* table: those the lower-cased chunk text contains
Discovered(e) ==
    /\ get(e.item, query_source_lang) # None
    /\ contains(to_lowercase(chunk_text), get(e.item, query_source_lang)[1])

TableTerms ==
    {get(e.item, query_source_lang)[1] : e \in {x \in glossary : Discovered(x) /\ HasBoth(x)}}

\* C19: after the header row the term table has exactly one row for each
\* distinct glossary source term that occurs in the chunk text and whose
\* entry has a value for both languages, in sorted order: none of these
\* terms is left out, whatever the term id of its entry is.
PromptTermTable ==
    pc = "prompt_built" =>
        /\ Len(term_table.rows) = Cardinality(TableTerms)
        /\ \A s \in TableTerms : \E k \in 1..Len(term_table.rows) : term_table.rows[k][1] = s
        /\ \A k \in 1..(Len(term_table.rows) - 1) :
               StrLess(term_table.rows[k][1], term_table.rows[k + 1][1])

\* C20: find_terms_in_text returns the sourceLang text of an entry exactly
\* when that text occurs in the input text as a substring, the case of the
\* letters being ignored on both sides.
CaseInsensitiveDiscovery ==
    pc = "terms_found" =>
        \A e \in glossary :
            get(e.item, query_source_lang) # None =>
                LET term == get(e.item, query_source_lang)[1]
                IN  (\E k \in 1..Len(found_terms) : found_terms[k] = term)
                        <=> contains(to_lowercase(chunk_text), to_lowercase(term))

\* the failures of translating one (file, target language) that C11 names
FileFailures == {"chunk", "merge", "write"}

\* C11: when translating one (file, target language) fails, by a chunk
\* failure, a merge failure or a write failure, every other source file and
\* every other target language of the task is still processed: the run of
\* the task does not end before the loops have taken every language and
\* every file.
FileFailureIsolation ==
    (pc = "run_failed" /\ run_error \in FileFailures)
        => (lang_idx = nlangs /\ file_idx = Len(files))

RequestsOf(t, l, f) ==
    {k \in 1..Len(request_log) :
        request_log[k].task = t /\ request_log[k].lang = l /\ request_log[k].file = f}

ChunksOfFile(f) == split_yaml_content(TargetFilename, files[f], max_chunk_tokens)

\* C12: an output file is written only after every chunk of the source file
\* was translated successfully and the slices were merged (which needs at
\* least one chunk); a file one of whose chunks failed is never written.
AllOrNothingWrite ==
    \A w \in written :
        /\ Len(ChunksOfFile(w[3])) >= 1
        /\ \A c \in 1..Len(ChunksOfFile(w[3])) :
               \E k \in RequestsOf(w[1], w[2], w[3]) :
                   request_log[k].chunk = c /\ request_log[k].outcome = "ok"
        /\ \A k \in RequestsOf(w[1], w[2], w[3]) : request_log[k].outcome = "ok"

AllOrNothingWriteWitness ==
    \E w \in written :
        /\ Len(ChunksOfFile(w[3])) = 2
        /\ Cardinality(RequestsOf(w[1], w[2], w[3])) = 2

\* C13: whenever the backend returns a text for a chunk, translate_chunk
\* returns a slice with that text and the chunk's line range, whether or not
\* the validator reports a marker mismatch: the slice is pushed for merging
\* and no run ends with a validation error.
AdvisoryValidation ==
    /\ run_error # "validation"
    /\ response.outcome = "ok" =>
           /\ request_log[Len(request_log)].returned
           /\ Len(slices) = chunk_idx
           /\ slices[chunk_idx] = TranslationSlice(response.text,
                                                   chunks[chunk_idx].start_line,
                                                   chunks[chunk_idx].end_line)

\* a file is written although the validator reported an issue on its chunk
AdvisoryValidationWitness ==
    \E w \in written :
        \E k \in RequestsOf(w[1], w[2], w[3]) :
            request_log[k].outcome = "ok" /\ request_log[k].issues # <<>>

ConfigFailsValidation ==
    \/ client_settings_validate(LoadedTaskFile.client_settings) # <<>>
    \/ \E i \in 1..Len(tasks) : task_validate(tasks[i]) # "ok"

\* what main returns before its loop: the errors of the task file, and the
\* missing API key, which is looked for before the task file is read
ConfigurationErrors ==
    {"MissingEnvVar", "InvalidPath: task file", "TomlParse", "MultipleErrors",
     "MissingField: source_lang", "MissingField: target_lang",
     "InvalidPath: localisation_dir", "InvalidPath: source_dir", "MissingField: task"}

\* C14: if the client settings or any task of the task file fails
\* validation, the run ends with a configuration error before any work: no
\* backend request is issued and no output file is written for any task,
\* the valid tasks listed before the invalid one included.
ConfigErrorsFatal ==
    ConfigFailsValidation =>
        /\ request_log = <<>>
        /\ written = {}
        /\ task_idx = 0
        /\ pc \in {"main_start", "run_failed"}
        /\ pc = "run_failed" => run_error \in ConfigurationErrors

ConfigErrorsFatalWitness ==
    /\ pc = "run_failed"
    /\ api_key_set
    /\ task_file = "ok"
    /\ Len(tasks) = 2
    /\ task_validate(tasks[1]) = "ok"
    /\ task_validate(tasks[2]) # "ok"
    /\ run_error = task_validate(tasks[2])

\* C15: for a file whose chunks were all translated, the merged body has
\* exactly as many lines as the source body that was chunked, whatever text
\* the backend returned for each chunk.
LineStructureLossless ==
    merged.ok => Len(Lines(merged.text)) = Len(Lines(content))

\* C21: when no glossary term is found for the chunk the placeholder is
\* replaced by the "no related terms" marker, and in no case is it replaced
\* by a table that has a header row and no term row.
NoTermsMarkerOrRows ==
    pc = "prompt_built" =>
        /\ (\A e \in glossary : ~Discovered(e)) => term_table = NoTermsMarker
        /\ ~(term_table.kind = "table" /\ term_table.rows = <<>>)

\* an entry of the file with at least one non-empty language value
HasLanguageValue(value) ==
    /\ value.kind = "object"
    /\ \/ (value.one.kind = "string" /\ value.one.text # <<>>)
       \/ (value.two.kind = "string" /\ value.two.text # <<>>)

\* C22: loading a glossary whose source is a term -> entry mapping never
\* fails; the loaded glossary has exactly the entries of the source with at
\* least one non-empty language value (an entry with none is skipped, keys
\* that are no language are ignored, every other entry is loaded); a source
\* that is not a mapping fails the load.
GlossaryLoadKeepsGoodEntries ==
    /\ (pc = "glossary_load_failed") => raw_json.kind # "object"
    /\ (pc = "glossary_loaded") =>
           /\ raw_json.kind = "object"
           /\ {e.key : e \in glossary}
                  = {r.key : r \in {x \in raw_json.entries : HasLanguageValue(x.value)}}

\* C23: merge_glossaries(g1..gn) has exactly the union of the term ids of
\* g1..gn, and under each id the whole entry of the last glossary of the
\* list that has the id.
MergeLastWriteWins ==
    pc = "glossaries_merged" =>
        /\ {e.key : e \in glossary}
               = UNION {{e.key : e \in glossary_list[i]} : i \in 1..Len(glossary_list)}
        /\ \A e \in glossary :
               \E i \in 1..Len(glossary_list) :
                   /\ e \in glossary_list[i]
                   /\ \A j \in (i + 1)..Len(glossary_list) :
                          ~\E n \in glossary_list[j] : n.key = e.key
        /\ \A e \in glossary : \A n \in glossary : e.key = n.key => e = n

\* an id of both glossaries, with a language value in the first entry that
\* the second entry lacks
MergeLastWriteWinsWitness ==
    /\ pc = "glossaries_merged"
    /\ Len(glossary_list) = 2
    /\ \E e \in glossary_list[1] :
           \E n \in glossary_list[2] :
               /\ e.key = n.key
               /\ e.item.simp_chinese # None
               /\ n.item.simp_chinese = None
               /\ n \in glossary


\* the lines of a text that are the language header
HeaderLines(text) == {i \in 1..Len(Lines(text)) : Lines(text)[i] = LanguageHeader}

\* C24: reconstruct_yaml_file returns header, newline and merged body when
\* the header is not empty and the merged body has no language header line
\* in it, and the merged body as it is otherwise; so with the language header
\* given the result has the language header line exactly once.
HeaderRestoredOnce ==
    pc = "reconstructed" =>
        /\ reconstructed.ok
        /\ reconstructed.text =
               IF original_header # <<>> /\ HeaderLines(merged.text) = {}
               THEN original_header \o <<"LF">> \o merged.text
               ELSE merged.text
        /\ original_header = LanguageHeader =>
               Cardinality(HeaderLines(reconstructed.text)) = 1

\* the places of a file name where the tag l_<source language> stands
TagPlaces(name, lang) ==
    {i \in 1..Len(name) :
         /\ i + Len(lang) + 1 <= Len(name)
         /\ SubSeq(name, i, i + Len(lang) + 1) = <<"l", "_">> \o lang}

\* the file name with the tag at place i replaced by l_<target language>
TagReplacedAt(name, i, source, target) ==
    SubSeq(name, 1, i - 1) \o <<"l", "_">> \o target
        \o SubSeq(name, i + Len(source) + 2, Len(name))

\* C25: for a file name with the tag l_<source language> in it,
\* generate_target_filename returns the name with that tag replaced by
\* l_<target language> and every other character as it was, for .yml and for
\* .yaml names.
FilenameTagReplaced ==
    (pc = "filename_generated" /\ Cardinality(TagPlaces(source_filename, name_source_lang)) = 1) =>
        \E i \in TagPlaces(source_filename, name_source_lang) :
            generated_filename =
                TagReplacedAt(source_filename, i, name_source_lang, name_target_lang)


\* the estimate of line k of the content
LineEstimate(k) == estimate_mixed_tokens(Lines(content)[k])

\* the sum of the estimates of the lines first..last of the content
RECURSIVE EstimateSum(_, _)
EstimateSum(first, last) ==
    IF first > last THEN 0 ELSE LineEstimate(first) + EstimateSum(first + 1, last)

\* C26: the line estimates of a chunk of more than one line sum to at most
\* max_chunk_tokens, and a chunk is closed only when the next line does not
\* fit: the line estimates of a chunk plus the estimate of the first line of
\* the chunk after it exceed max_chunk_tokens.
GreedyChunkClosing ==
    pc = "split_done" =>
        /\ \A i \in 1..Len(chunks) :
               chunks[i].end_line > chunks[i].start_line
                   => EstimateSum(chunks[i].start_line, chunks[i].end_line) <= max_chunk_tokens
        /\ \A i \in 1..(Len(chunks) - 1) :
               EstimateSum(chunks[i].start_line, chunks[i].end_line)
                   + LineEstimate(chunks[i + 1].start_line) > max_chunk_tokens

\* a chunk of two lines that fills the budget exactly, closed before a line
\* that is within the budget by itself
GreedyChunkClosingWitness ==
    /\ pc = "split_done"
    /\ Len(chunks) >= 2
    /\ chunks[1].end_line > chunks[1].start_line
    /\ EstimateSum(chunks[1].start_line, chunks[1].end_line) = max_chunk_tokens
    /\ LineEstimate(chunks[2].start_line) <= max_chunk_tokens

\* the lines of the content with an estimate above the budget
OverBudgetLines ==
    {k \in 1..Len(Lines(content)) : LineEstimate(k) > max_chunk_tokens}

\* C27: a line with an estimate above max_chunk_tokens is a chunk of its own,
\* with start_line = end_line = its line number and its text as content,
\* wherever it stands in the file.
OverBudgetLineAlone ==
    pc = "split_done" =>
        \A k \in OverBudgetLines :
            \E i \in 1..Len(chunks) :
                /\ chunks[i].start_line = k
                /\ chunks[i].end_line = k
                /\ chunks[i].content = Lines(content)[k]

\* an over-budget line between two lines that fit
OverBudgetLineAloneWitness ==
    /\ pc = "split_done"
    /\ Len(Lines(content)) = 3
    /\ OverBudgetLines = {2}
    /\ LineEstimate(1) > 0
    /\ LineEstimate(3) > 0
    /\ Len(chunks) = 3


\* the slices in the order p
Permuted(ss, p) == [i \in 1..Len(ss) |-> ss[p[i]]]

DistinctStartLines(ss) ==
    \A i, j \in 1..Len(ss) : i # j => ss[i].start_line # ss[j].start_line

\* C28: for slices with distinct start_line values merge_slices gives the
\* same result, the same text or the same error, for every order in which
\* the slices are given.
MergeOrderIndependent ==
    (pc = "merged" /\ DistinctStartLines(slices)) =>
        \A p \in Orders(Len(slices)) : merge_slices(Permuted(slices, p)) = merged

\* three contiguous slices given out of order and merged into a text
MergeOrderIndependentWitness ==
    /\ pc = "merged"
    /\ Len(slices) = 3
    /\ DistinctStartLines(slices)
    /\ slices[1].start_line > slices[2].start_line
    /\ slices[3].start_line < slices[2].start_line
    /\ merged.ok
    /\ slices[1].content # slices[3].content


\* every chunk has a future that ended, and every request sent was answered
AllChunksResolved ==
    /\ Len(futures) = Len(chunks)
    /\ \A i \in 1..Len(futures) :
           /\ futures[i].state \in {"ok", "err"}
           /\ futures[i].requests > 0 => futures[i].responded

\* C29: when every backend call resolves in the end, translate_batch returns
\* in the end, and it returns only after every chunk given to it has
\* resolved: no chunk is cancelled, left unresolved or never started.
BatchCompletion ==
    /\ <>(pc = "batch_returned")
    /\ [](pc = "batch_returned" => AllChunksResolved)

\* a batch of two chunks returned after a failure that came first and an
\* answer that came after it
BatchCompletionWitness ==
    /\ pc = "batch_returned"
    /\ Len(chunks) = 2
    /\ completion_order = <<2, 1>>
    /\ futures[2].state = "err" /\ futures[2].responded
    /\ futures[1].state = "ok" /\ futures[1].responded
    /\ batch_result.status = "err"


\* the source files whose body has no line
EmptyFiles == {f \in 1..Len(files) : Lines(files[f]) = <<>>}

\* translate_one_file is at the chunk loop of a file without lines
AtEmptyFile == pc = "chunk_loop" /\ file_idx \in EmptyFiles

\* C30: for a source file whose body has no lines the chunker gives no chunk,
\* no backend request is sent for the file, merge_slices gets no slice and
\* fails with its empty-input error, the file's translation fails and no
\* output file is written for it.
EmptyFileFails ==
    /\ [](\A f \in EmptyFiles :
              /\ ChunksOfFile(f) = <<>>
              /\ \A t \in 1..ntasks : \A l \in 1..nlangs :
                     RequestsOf(t, l, f) = {} /\ <<t, l, f>> \notin written)
    /\ [](AtEmptyFile => (chunks = <<>> /\ slices = <<>>))
    /\ [][AtEmptyFile =>
              /\ pc' = "run_failed"
              /\ run_error' = "merge"
              /\ merged' = MergeErr("InconsistentSlices")
              /\ written' = written
              /\ request_log' = request_log]_vars

\* a file was translated and written, then the file without lines failed
EmptyFileFailsWitness ==
    /\ pc = "run_failed"
    /\ run_error = "merge"
    /\ file_idx = 2
    /\ file_idx \in EmptyFiles
    /\ merged = MergeErr("InconsistentSlices")
    /\ written = {<<1, 1, 1>>}
    /\ request_log # <<>>

====
